---- MODULE Spec2Model ----
(***************************************************************************)
(* A model of icat.query (src/icat/query.py): the Query class that builds  *)
(* JPQL-like search expressions for an ICAT server.                        *)
(*                                                                         *)
(* Representation.                                                         *)
(*  - An attribute path ("dataset.investigation.name") is the sequence of  *)
(*    its dot separated components.  All component names are made of       *)
(*    letters, which sort after '.', so Python's order of the dotted       *)
(*    strings is the component-wise lexicographic order (PathLess).        *)
(*  - A string that is put together by the code (a condition expression,   *)
(*    the rendered query) is the sequence of the text pieces that the      *)
(*    code concatenates; two equal sequences are byte-identical strings.   *)
(*  - A dict is the sequence of its items in iteration order; the order    *)
(*    is an implementation detail that the code may not depend on.         *)
(***************************************************************************)
EXTENDS Integers, Sequences, FiniteSets, TLC

VARIABLES
    alive,        \* TRUE once the constructor has returned a Query
    entity,       \* self.entity (its BeanName)
    order,        \* self.order: list of paths
    conditions,   \* self.conditions: dict path -> string or list of strings
    includes,     \* self.includes: set of paths
    last,         \* the last call: method, whether it raised, argument
    before,       \* self.includes as it was before the last call
    out,          \* the value returned by the last str(query), or NoString
    prevOut,      \* the value of the str(query) just before, if the last two
                  \* calls were both str(query), else NoString
    supplied,     \* history: per path, every expression ever passed for it
    peer,         \* a second, independently built Query (SpecPair only)
    cfg           \* the last getconfig() call of a Config object: what it
                  \* was given and what it returned (SpecConfig only)

vars == <<alive, entity, order, conditions, includes, last, before, out,
          prevOut, supplied, peer, cfg>>

(***************************************************************************)
(* Generic helpers.                                                        *)
(***************************************************************************)
Range(s) == { s[i] : i \in DOMAIN s }

RECURSIVE Flatten(_)
Flatten(ss) == IF ss = <<>> THEN <<>> ELSE Head(ss) \o Flatten(Tail(ss))

RECURSIVE Join(_, _)
\* sep.join(ss) for a list ss of strings
Join(sep, ss) ==
    IF ss = <<>> THEN <<>>
    ELSE IF Len(ss) = 1 THEN ss[1]
    ELSE ss[1] \o sep \o Join(sep, Tail(ss))

(***************************************************************************)
(* The order of Python strings, for the component names that occur.        *)
(***************************************************************************)
NameOrder ==
    << "bogus", "dataCollectionDatafiles", "dataCollectionDatasets",
       "datafiles", "dataset", "facility", "grouping", "id", "investigation",
       "name", "parameters", "type", "visitId", "what" >>

NameRank(n) == CHOOSE i \in DOMAIN NameOrder : NameOrder[i] = n

RECURSIVE PathLess(_, _)
\* p < q for the dotted strings of the paths p and q
PathLess(p, q) ==
    IF p = <<>> THEN q # <<>>
    ELSE IF q = <<>> THEN FALSE
    ELSE IF Head(p) = Head(q) THEN PathLess(Tail(p), Tail(q))
    ELSE NameRank(Head(p)) < NameRank(Head(q))

RECURSIVE sortedDescending(_)
\* mutant: the greatest path comes first
sortedDescending(S) ==
    IF S = {} THEN <<>>
    ELSE LET m == CHOOSE x \in S : \A y \in S \ {x} : PathLess(y, x)
         IN  <<m>> \o sortedDescending(S \ {m})

RECURSIVE sorted(_)
\* sorted(S) for a set (or the keys of a dict) S of paths
sorted(S) ==
    IF S = {} THEN <<>>
    ELSE LET m == CHOOSE x \in S : \A y \in S \ {x} : PathLess(x, y)
         IN  <<m>> \o sorted(S \ {m})

(***************************************************************************)
(* The entity metadata that the ICAT client provides: a part of the ICAT   *)
(* schema.                                                                 *)
(***************************************************************************)
Attr == [relType |-> "ATTRIBUTE", type |-> "scalar"]
One(t) == [relType |-> "ONE", type |-> t]
Many(t) == [relType |-> "MANY", type |-> t]

EntityInfo == [
    Facility |-> [
        SortAttrs |-> <<>>, Constraint |-> <<"name">>,
        fields |-> ("id" :> Attr) @@ ("name" :> Attr) ],
    Investigation |-> [
        SortAttrs |-> <<>>, Constraint |-> <<"facility", "name", "visitId">>,
        fields |-> ("id" :> Attr) @@ ("name" :> Attr) @@ ("visitId" :> Attr)
                   @@ ("facility" :> One("Facility"))
                   @@ ("datasets" :> Many("Dataset")) ],
    Dataset |-> [
        SortAttrs |-> <<>>, Constraint |-> <<"investigation", "name">>,
        fields |-> ("id" :> Attr) @@ ("name" :> Attr)
                   @@ ("investigation" :> One("Investigation"))
                   @@ ("datafiles" :> Many("Datafile")) ],
    Datafile |-> [
        SortAttrs |-> <<>>, Constraint |-> <<"dataset", "name">>,
        fields |-> ("id" :> Attr) @@ ("name" :> Attr)
                   @@ ("dataset" :> One("Dataset"))
                   @@ ("parameters" :> Many("DatafileParameter")) ],
    Grouping |-> [
        SortAttrs |-> <<>>, Constraint |-> <<"name">>,
        fields |-> ("id" :> Attr) @@ ("name" :> Attr) ],
    Rule |-> [
        SortAttrs |-> <<>>, Constraint |-> <<"id">>,
        fields |-> ("id" :> Attr) @@ ("what" :> Attr)
                   @@ ("grouping" :> One("Grouping")) ],
    DataCollection |-> [
        SortAttrs |-> <<"dataCollectionDatasets", "dataCollectionDatafiles">>,
        Constraint |-> <<"id">>,
        fields |-> ("id" :> Attr)
                   @@ ("dataCollectionDatasets" :> Many("DataCollectionDataset"))
                   @@ ("dataCollectionDatafiles" :> Many("DataCollectionDatafile")) ],
    \* an entity class that declares an empty Constraint and no SortAttrs
    Unkeyed |-> [
        SortAttrs |-> <<>>, Constraint |-> <<>>,
        fields |-> ("id" :> Attr) @@ ("name" :> Attr) ],
    \* an entity class whose constraint holds a many to one relation to its
    \* own type: a schema with a cycle
    Linked |-> [
        SortAttrs |-> <<>>, Constraint |-> <<"next", "name">>,
        fields |-> ("id" :> Attr) @@ ("name" :> Attr)
                   @@ ("next" :> One("Linked")) ]
]

\* entity.getAttrInfo(client, a); raises ValueError for an unknown name
getAttrInfo(e, a) ==
    IF a \in DOMAIN EntityInfo[e].fields
    THEN EntityInfo[e].fields[a]
    ELSE [relType |-> "UNKNOWN", type |-> "none"]

(***************************************************************************)
(* Module level functions of query.py.                                     *)
(***************************************************************************)
substnames ==
       (<<"datafileFormat">> :> "dff")
    @@ (<<"dataset">> :> "ds")
    @@ (<<"dataset", "investigation">> :> "i")
    @@ (<<"facility">> :> "f")
    @@ (<<"grouping">> :> "g")
    @@ (<<"instrumentScientists">> :> "isc")
    @@ (<<"investigation">> :> "i")
    @@ (<<"investigationGroups">> :> "ig")
    @@ (<<"investigationInstruments">> :> "ii")
    @@ (<<"investigationUsers">> :> "iu")
    @@ (<<"parameters">> :> "p")
    @@ (<<"parameters", "type">> :> "pt")
    @@ (<<"type">> :> "t")
    @@ (<<"user">> :> "u")
    @@ (<<"userGroups">> :> "ug")

\* mutant: the relation name is not put in front
PrefixedDropped(a, rorder) == rorder

\* "%s.%s" % (a, ra) for a path a and each ra of rorder
Prefixed(a, rorder) == [ i \in DOMAIN rorder |-> a \o rorder[i] ]

RECURSIVE getnaturalorder(_)
RECURSIVE naturalorderLoopKeepMany(_, _)
\* mutant: a one to many relationship is kept like a plain attribute
naturalorderLoopKeepMany(e, attrs) ==
    IF attrs = <<>> THEN <<>>
    ELSE LET a == Head(attrs)
             attrInfo == getAttrInfo(e, a)
             this == CASE attrInfo.relType \in {"ATTRIBUTE", "MANY"} -> << <<a>> >>
                       [] attrInfo.relType = "ONE" ->
                            Prefixed(<<a>>, getnaturalorder(attrInfo.type))
                       [] OTHER -> <<>>
         IN  this \o naturalorderLoopKeepMany(e, Tail(attrs))

RECURSIVE naturalorderLoop(_, _)
\* the for loop of getnaturalorder over the remaining attrs
naturalorderLoop(e, attrs) ==
    IF attrs = <<>> THEN <<>>
    ELSE LET a == Head(attrs)
             attrInfo == getAttrInfo(e, a)
             this == CASE attrInfo.relType = "ATTRIBUTE" -> << <<a>> >>
                       [] attrInfo.relType = "ONE" ->
                            Prefixed(<<a>>, getnaturalorder(attrInfo.type))
                       [] OTHER -> <<>>
         IN  this \o naturalorderLoop(e, Tail(attrs))

\* mutant: "id" is not appended to the sort attributes
getnaturalorderNoAppend(e) ==
    naturalorderLoop(e, IF EntityInfo[e].SortAttrs # <<>>
                        THEN EntityInfo[e].SortAttrs
                        ELSE EntityInfo[e].Constraint)

getnaturalorder(e) ==
    LET base == IF EntityInfo[e].SortAttrs # <<>>
                THEN EntityInfo[e].SortAttrs
                ELSE EntityInfo[e].Constraint
        attrs == IF "id" \in Range(EntityInfo[e].Constraint)
                    /\ "id" \notin Range(base)
                 THEN Append(base, "id")
                 ELSE base
    IN  naturalorderLoop(e, attrs)

\* sys.getrecursionlimit(), in calls of getnaturalorder
RecursionLimit == 5

RECURSIVE callDepth(_, _)
\* how deep the calls of getnaturalorder nest when it is called for e at
\* depth d, as far as the recursion limit lets them
callDepth(e, d) ==
    IF d > RecursionLimit THEN d
    ELSE LET base == IF EntityInfo[e].SortAttrs # <<>>
                     THEN EntityInfo[e].SortAttrs
                     ELSE EntityInfo[e].Constraint
             deeper == { callDepth(getAttrInfo(e, base[i]).type, d + 1) :
                           i \in { j \in DOMAIN base :
                                     getAttrInfo(e, base[j]).relType = "ONE" } }
         IN  IF deeper = {} THEN d
             ELSE CHOOSE m \in deeper : \A n \in deeper : n <= m

\* getnaturalorder(client, e) exceeds the recursion limit and raises
RecursionError(e) == callDepth(e, 1) > RecursionLimit

\* list(parents(obj)): the proper prefixes of obj, shortest first
parents(obj) == [ i \in 1 .. (Len(obj) - 1) |-> SubSeq(obj, 1, i) ]

RECURSIVE makesubstLoopReuse(_, _, _)
\* mutant: a symbolic name is used even if it is given out already
makesubstLoopReuse(os, subst, substcount) ==
    IF os = <<>> THEN subst
    ELSE LET o == Head(os) IN
         IF o \in DOMAIN subst
         THEN makesubstLoopReuse(Tail(os), subst, substcount)
         ELSE IF o \in DOMAIN substnames
         THEN makesubstLoopReuse(Tail(os), subst @@ (o :> substnames[o]),
                                 substcount)
         ELSE makesubstLoopReuse(Tail(os),
                                 subst @@ (o :> "s" \o ToString(substcount + 1)),
                                 substcount + 1)

RECURSIVE makesubstLoop(_, _, _)
\* the two nested loops of makesubst over the remaining prefixes os
makesubstLoop(os, subst, substcount) ==
    IF os = <<>> THEN subst
    ELSE LET o == Head(os) IN
         IF o \in DOMAIN subst
         THEN makesubstLoop(Tail(os), subst, substcount)
         ELSE IF o \in DOMAIN substnames /\ substnames[o] \notin Range(subst)
         THEN makesubstLoop(Tail(os), subst @@ (o :> substnames[o]), substcount)
         ELSE makesubstLoop(Tail(os),
                            subst @@ (o :> "s" \o ToString(substcount + 1)),
                            substcount + 1)

makesubst(objs) ==
    LET objlist == sorted(objs)
    IN  makesubstLoop(Flatten([ i \in DOMAIN objlist |-> parents(objlist[i]) ]),
                      <<>>, 0)

\* mutant: the alias label is never appended
dosubstNoLabel(obj, subst) ==
    IF Len(obj) = 1
    THEN <<"o", ".", obj[1]>>
    ELSE <<subst[SubSeq(obj, 1, Len(obj) - 1)], ".", obj[Len(obj)]>>

\* dosubst(obj, subst) returns the pieces of the text it formats
dosubst(obj, subst) ==
    LET i == Len(obj)
        n == IF i = 1
             THEN <<"o", ".", obj[1]>>
             ELSE <<subst[SubSeq(obj, 1, i - 1)], ".", obj[i]>>
    IN  IF obj \in DOMAIN subst THEN n \o <<" AS ", subst[obj]>> ELSE n

(***************************************************************************)
(* The values that are passed in: condition expressions (the second one    *)
(* with a %(name)s placeholder), condition values, paths and orders.       *)
(***************************************************************************)
MaxConds == 3        \* most condition expressions a Query holds

ExprLiteral == <<"= '", "X", "'">>
ExprPlaceholder == <<"= '", "%(name)s", "'">>
Exprs == {ExprLiteral, ExprPlaceholder}

Str(s) == [kind |-> "str", v |-> s]
List(l) == [kind |-> "list", v |-> l]
CondValues ==
    {Str(ExprLiteral), Str(ExprPlaceholder),
     List(<<ExprPlaceholder, ExprLiteral>>), List(<<>>)}

CondPaths == {<<"dataset">>, <<"dataset", "name">>}
QueryEntities == {"Datafile", "Rule"}

\* the order argument: None (or any false value), True, or a list of paths
OrderNone == [kind |-> "none", v |-> <<>>]
OrderTrue == [kind |-> "true", v |-> <<>>]
OrderList(l) == [kind |-> "list", v |-> l]
OrderLists ==
    { << <<"dataset">>, <<"name">> >>,
      << <<"name">>, <<"dataset">> >>,
      << <<"dataset", "name">>, <<"name">> >>,
      << <<"grouping">>, <<"id">> >>,
      << <<"parameters">> >>,
      << <<"dataset">>, <<"dataset", "datafiles", "name">> >>,
      << <<"name", "bogus">> >>,
      << <<"name">>, <<"dataset", "bogus">> >> }
OrderArgs == {OrderNone, OrderTrue} \cup { OrderList(l) : l \in OrderLists }

\* the conditions argument: None or a dict, as the list of its items
Item(k, v) == [key |-> k, val |-> v]
Keys(d) == [ i \in DOMAIN d |-> d[i].key ]
CondArgs ==
    { <<>> }
    \cup { <<Item(k, v)>> : k \in CondPaths, v \in CondValues }
    \cup { <<Item(<<"dataset">>, Str(ExprLiteral)),
             Item(<<"dataset", "name">>, Str(ExprPlaceholder))>>,
           <<Item(<<"dataset", "name">>, Str(ExprPlaceholder)),
             Item(<<"dataset">>, Str(ExprLiteral))>> }

\* the includes argument: None or an iterable of paths
IncludeArgs ==
    { {}, {<<"dataset">>}, {<<"dataset", "investigation", "facility">>} }

(***************************************************************************)
(* The methods of Query, as functions of the fields they read.             *)
(***************************************************************************)
RECURSIVE resolveLoopManyOk(_, _, _)
\* mutant: a one to many relationship is followed like a many to one
resolveLoopManyOk(rclass, final, attrs) ==
    IF attrs = <<>> THEN [raised |-> FALSE, final |-> final, rclass |-> rclass]
    ELSE IF final THEN [raised |-> TRUE, final |-> final, rclass |-> rclass]
    ELSE LET attrInfo == getAttrInfo(rclass, Head(attrs)) IN
         CASE attrInfo.relType = "ATTRIBUTE" ->
                  resolveLoopManyOk(rclass, TRUE, Tail(attrs))
           [] attrInfo.relType \in {"ONE", "MANY"}
              /\ attrInfo.type \in DOMAIN EntityInfo ->
                  resolveLoopManyOk(attrInfo.type, FALSE, Tail(attrs))
           [] OTHER -> [raised |-> TRUE, final |-> final, rclass |-> rclass]

RECURSIVE resolveLoop(_, _, _)
\* the inner loop of setOrder over the components of one order entry
resolveLoop(rclass, final, attrs) ==
    IF attrs = <<>> THEN [raised |-> FALSE, final |-> final, rclass |-> rclass]
    ELSE IF final THEN [raised |-> TRUE, final |-> final, rclass |-> rclass]
    ELSE LET attrInfo == getAttrInfo(rclass, Head(attrs)) IN
         CASE attrInfo.relType = "ATTRIBUTE" ->
                  resolveLoop(rclass, TRUE, Tail(attrs))
           [] attrInfo.relType = "ONE" ->
                  resolveLoop(attrInfo.type, FALSE, Tail(attrs))
           [] OTHER -> [raised |-> TRUE, final |-> final, rclass |-> rclass]

RECURSIVE setOrderLoopNoPrefix(_, _, _)
\* mutant: the natural order of the related class is used as it is
setOrderLoopNoPrefix(e, sofar, objs) ==
    IF objs = <<>> THEN [order |-> sofar, raised |-> FALSE]
    ELSE LET obj == Head(objs)
             r == resolveLoop(e, FALSE, obj)
         IN  IF r.raised THEN [order |-> sofar, raised |-> TRUE]
             ELSE IF r.final
             THEN setOrderLoopNoPrefix(e, Append(sofar, obj), Tail(objs))
             ELSE IF RecursionError(r.rclass)
             THEN [order |-> sofar, raised |-> TRUE]
             ELSE setOrderLoopNoPrefix(e, sofar \o getnaturalorder(r.rclass),
                                       Tail(objs))

RECURSIVE setOrderLoop(_, _, _)
\* the outer loop of setOrder: self.order so far, the entries still to do
setOrderLoop(e, sofar, objs) ==
    IF objs = <<>> THEN [order |-> sofar, raised |-> FALSE]
    ELSE LET obj == Head(objs)
             r == resolveLoop(e, FALSE, obj)
         IN  IF r.raised THEN [order |-> sofar, raised |-> TRUE]
             ELSE IF r.final
             THEN setOrderLoop(e, Append(sofar, obj), Tail(objs))
             ELSE IF RecursionError(r.rclass)
             THEN [order |-> sofar, raised |-> TRUE]
             ELSE setOrderLoop(e,
                               sofar \o Prefixed(obj, getnaturalorder(r.rclass)),
                               Tail(objs))

\* setOrder(order): the new self.order and whether the call raised; with
\* order=True a raise leaves self.order unassigned
setOrder(e, arg) ==
    CASE arg.kind = "true" ->
             IF RecursionError(e) THEN [order |-> <<>>, raised |-> TRUE]
             ELSE [order |-> getnaturalorder(e), raised |-> FALSE]
      [] arg.kind = "list" /\ arg.v # <<>> -> setOrderLoop(e, <<>>, arg.v)
      [] OTHER -> [order |-> <<>>, raised |-> FALSE]

\* a condition value as a list: a string counts as a list of one
AsList(val) == IF val.kind = "str" THEN <<val.v>> ELSE val.v

RECURSIVE addConditionsOverwrite(_, _)
\* mutant: a condition on a path that has one already replaces it
addConditionsOverwrite(self, arg) ==
    IF arg = <<>> THEN self
    ELSE LET a == arg[1].key
             new == arg[1].val
         IN  IF a \in Range(Keys(self))
             THEN LET i == CHOOSE i \in DOMAIN self : self[i].key = a
                  IN  addConditionsOverwrite([self EXCEPT ![i].val = new],
                                             Tail(arg))
             ELSE addConditionsOverwrite(Append(self, Item(a, new)), Tail(arg))

RECURSIVE addConditions(_, _)
\* addConditions(conditions): the new self.conditions
addConditions(self, arg) ==
    IF arg = <<>> THEN self
    ELSE LET a == arg[1].key
             new == arg[1].val
         IN  IF a \in Range(Keys(self))
             THEN LET i == CHOOSE i \in DOMAIN self : self[i].key = a
                      conds == AsList(self[i].val) \o AsList(new)
                  IN  addConditions([self EXCEPT ![i].val = List(conds)],
                                    Tail(arg))
             ELSE addConditions(Append(self, Item(a, new)), Tail(arg))

\* mutant: the argument replaces the set
addIncludesReplace(self, arg) == IF arg # {} THEN arg ELSE self

\* addIncludes(includes): the new self.includes
addIncludes(self, arg) == self \cup arg

RECURSIVE Dedup(_)
Dedup(l) ==
    IF l = <<>> THEN <<>>
    ELSE LET r == Dedup(SubSeq(l, 1, Len(l) - 1))
         IN  IF l[Len(l)] \in Range(r) THEN r ELSE Append(r, l[Len(l)])

\* mutant: equal expressions on one path are rendered once
condTermsDedup(a, cond, subst) ==
    LET attr == dosubst(a, subst)
        cs == Dedup(AsList(cond))
    IN  [ i \in DOMAIN cs |-> attr \o <<" ">> \o cs[i] ]

\* the WHERE terms of one condition path
condTerms(a, cond, subst) ==
    LET attr == dosubst(a, subst)
    IN  [ i \in DOMAIN AsList(cond) |-> attr \o <<" ">> \o AsList(cond)[i] ]

\* the dict lookup self.conditions[a]
Lookup(d, a) == d[CHOOSE i \in DOMAIN d : d[i].key = a].val

\* mutant: the keys are visited in the iteration order of the dict
condOrderUnsorted(conds) == Keys(conds)

\* the order in which __str__ visits the keys of self.conditions
condOrder(conds) == sorted(Range(Keys(conds)))

\* mutant: the dict is walked as it is, without sorting its keys
whereTermsAsStored(ord, conds) ==
    LET subst == makesubst(Range(ord) \cup Range(Keys(conds)))
    IN  Flatten([ i \in DOMAIN conds |->
                    condTerms(conds[i].key, conds[i].val, subst) ])

\* the list conds that __str__ builds for the WHERE clause
whereTerms(ord, conds) ==
    LET subst == makesubst(Range(ord) \cup Range(Keys(conds)))
        visit == condOrder(conds)
    IN  Flatten([ i \in DOMAIN visit |-> condTerms(visit[i], Lookup(conds, visit[i]), subst) ])

\* mutant: __str__ leaves self.includes as it is
strIncludesUnchanged(incl) == incl

\* the set self.includes as __str__ leaves it
strIncludes(incl) ==
    IF incl # {} THEN addIncludes(incl, DOMAIN makesubst(incl)) ELSE incl

\* mutant: the INCLUDE clause lists self.includes as it was on entry
includeKeysStale(incl) == sorted(incl)

\* the objects that __str__ lists in the INCLUDE clause
includeKeys(incl) == sorted(strIncludes(incl))

\* str(query): the text returned
str(e, ord, conds, incl) ==
    LET base == <<"SELECT o FROM ", e, " o">>
        subst == makesubst(Range(ord) \cup Range(Keys(conds)))
        jkeys == sorted(DOMAIN subst)
        joins == Flatten([ i \in DOMAIN jkeys |->
                             <<" JOIN ">> \o dosubst(jkeys[i], subst) ])
        where == IF conds # <<>>
                 THEN <<" WHERE ">> \o Join(<<" AND ">>, whereTerms(ord, conds))
                 ELSE <<>>
        orders == [ i \in DOMAIN ord |-> dosubst(ord[i], subst) ]
        orderby == IF ord # <<>>
                   THEN <<" ORDER BY ">> \o Join(<<", ">>, orders)
                   ELSE <<>>
        isubst == makesubst(incl)
        ikeys == includeKeys(incl)
        inc == [ i \in DOMAIN ikeys |-> dosubst(ikeys[i], isubst) ]
        include == IF incl # {}
                   THEN <<" INCLUDE ">> \o Join(<<", ">>, inc)
                   ELSE <<>>
    IN  base \o joins \o where \o orderby \o include

(***************************************************************************)
(* The state machine: one Query object and the calls made on it.           *)
(***************************************************************************)
NoString == <<>>
NoQuery == [alive |-> FALSE]
NoArg == [kind |-> "none", v |-> <<>>]
NoConfiguration == [called |-> FALSE]
Call(op, raised, arg) == [op |-> op, raised |-> raised, arg |-> arg]

RECURSIVE CountExprs(_)
\* the number of condition expressions held in a conditions dict
CountExprs(d) ==
    IF d = <<>> THEN 0 ELSE Len(AsList(d[1].val)) + CountExprs(Tail(d))

\* history: the expressions of arg appended to those supplied before
Supply(sup, arg) ==
    [ p \in CondPaths |->
        IF p \in Range(Keys(arg))
        THEN sup[p] \o AsList(Lookup(arg, p))
        ELSE sup[p] ]

Init ==
    /\ alive = FALSE
    /\ entity = "none"
    /\ order = <<>>
    /\ conditions = <<>>
    /\ includes = {}
    /\ last = Call("none", FALSE, NoArg)
    /\ before = {}
    /\ out = NoString
    /\ prevOut = NoString
    /\ supplied = [ p \in CondPaths |-> <<>> ]
    /\ peer = NoQuery
    /\ cfg = NoConfiguration

\* query = Query(client, e, order=ord, conditions=conds, includes=incl)
Construct(e, ord, conds, incl) ==
    /\ ~alive
    /\ last.op = "none"
    /\ entity' = e
    /\ LET r == setOrder(e, ord) IN
       IF r.raised
       THEN \* setOrder raises: no Query is returned
            /\ last' = Call("Query", TRUE, ord)
            /\ UNCHANGED <<alive, order, conditions, includes, supplied>>
       ELSE /\ alive' = TRUE
            /\ order' = r.order
            /\ conditions' = addConditions(<<>>, conds)
            /\ includes' = addIncludes({}, incl)
            /\ supplied' = Supply(supplied, conds)
            /\ last' = Call("Query", FALSE, ord)
    /\ UNCHANGED <<before, out, prevOut, peer, cfg>>

\* query.setOrder(ord)
SetOrder(ord) ==
    /\ alive
    /\ LET r == setOrder(entity, ord) IN
       /\ order' = IF r.raised /\ ord.kind = "true" THEN order ELSE r.order
       /\ last' = Call("setOrder", r.raised, ord)
    /\ before' = includes
    /\ out' = NoString
    /\ prevOut' = NoString
    /\ UNCHANGED <<alive, entity, conditions, includes, supplied, peer, cfg>>

\* query.addConditions(conds)
AddConditions(conds) ==
    /\ alive
    /\ CountExprs(addConditions(conditions, conds)) <= MaxConds
    /\ conditions' = addConditions(conditions, conds)
    /\ supplied' = Supply(supplied, conds)
    /\ last' = Call("addConditions", FALSE, NoArg)
    /\ before' = includes
    /\ out' = NoString
    /\ prevOut' = NoString
    /\ UNCHANGED <<alive, entity, order, includes, peer, cfg>>

\* query.addIncludes(incl)
AddIncludes(incl) ==
    /\ alive
    /\ includes' = addIncludes(includes, incl)
    /\ last' = Call("addIncludes", FALSE, [kind |-> "set", v |-> incl])
    /\ before' = includes
    /\ out' = NoString
    /\ prevOut' = NoString
    /\ UNCHANGED <<alive, entity, order, conditions, supplied, peer, cfg>>

\* str(query)
Render ==
    /\ alive
    /\ out' = str(entity, order, conditions, includes)
    /\ includes' = strIncludes(includes)
    /\ prevOut' = IF last.op = "str" THEN out ELSE NoString
    /\ last' = Call("str", FALSE, NoArg)
    /\ before' = includes
    /\ UNCHANGED <<alive, entity, order, conditions, supplied, peer, cfg>>

Next ==
    \/ \E e \in QueryEntities, ord \in OrderArgs, conds \in CondArgs,
          incl \in IncludeArgs :
          /\ CountExprs(conds) <= MaxConds
          /\ Construct(e, ord, conds, incl)
    \/ \E ord \in OrderArgs : SetOrder(ord)
    \/ \E conds \in CondArgs : AddConditions(conds)
    \/ \E incl \in IncludeArgs : AddIncludes(incl)
    \/ Render

Spec == Init /\ [][Next]_vars

(***************************************************************************)
(* Two Query objects, each built by its own sequence of calls.  The        *)
(* history variables of the single Query are not used here.                *)
(***************************************************************************)
PairOrderArgs ==
    {OrderNone, OrderTrue, OrderList(<< <<"dataset", "name">>, <<"name">> >>)}
PairCondArgs ==
    { <<Item(<<"dataset">>, Str(ExprLiteral))>>,
      <<Item(<<"dataset", "name">>, Str(ExprPlaceholder))>> }
PairIncludeArgs == { {<<"dataset", "investigation">>} }

Self ==
    [alive |-> alive, entity |-> entity, order |-> order,
     conditions |-> conditions, includes |-> includes]

\* the Query q after the call
QuerySetOrder(q, ord) == [q EXCEPT !.order = setOrder(q.entity, ord).order]
QueryAddConditions(q, conds) ==
    [q EXCEPT !.conditions = addConditions(q.conditions, conds)]
QueryAddIncludes(q, incl) ==
    [q EXCEPT !.includes = addIncludes(q.includes, incl)]
QueryStr(q) == [q EXCEPT !.includes = strIncludes(q.includes)]

\* the call turns the first Query (who = 1) or the second one into q
Becomes(who, q) ==
    /\ IF who = 1
       THEN /\ order' = q.order
            /\ conditions' = q.conditions
            /\ includes' = q.includes
            /\ UNCHANGED peer
       ELSE /\ peer' = q
            /\ UNCHANGED <<order, conditions, includes>>
    /\ UNCHANGED <<alive, entity, last, before, out, prevOut, supplied, cfg>>

Target(who) == IF who = 1 THEN Self ELSE peer

PairInit ==
    /\ alive = TRUE
    /\ entity \in QueryEntities
    /\ order = <<>>
    /\ conditions = <<>>
    /\ includes = {}
    /\ last = Call("Query", FALSE, OrderNone)
    /\ before = {}
    /\ out = NoString
    /\ prevOut = NoString
    /\ supplied = [ p \in CondPaths |-> <<>> ]
    /\ \E e \in QueryEntities :
         peer = [alive |-> TRUE, entity |-> e, order |-> <<>>,
                 conditions |-> <<>>, includes |-> {}]
    /\ cfg = NoConfiguration

PairSetOrder(who, ord) == Becomes(who, QuerySetOrder(Target(who), ord))

PairAddConditions(who, conds) ==
    /\ CountExprs(addConditions(Target(who).conditions, conds)) <= MaxConds
    /\ Becomes(who, QueryAddConditions(Target(who), conds))

PairAddIncludes(who, incl) ==
    Becomes(who, QueryAddIncludes(Target(who), incl))

PairRender(who) == Becomes(who, QueryStr(Target(who)))

PairNext ==
    \E who \in {1, 2} :
       \/ \E ord \in PairOrderArgs : PairSetOrder(who, ord)
       \/ \E conds \in PairCondArgs : PairAddConditions(who, conds)
       \/ \E incl \in PairIncludeArgs : PairAddIncludes(who, incl)
       \/ PairRender(who)

SpecPair == PairInit /\ [][PairNext]_vars

(***************************************************************************)
(* One Query on any entity type of the schema, with the calls that the     *)
(* tests make on it besides those above.                                   *)
(***************************************************************************)
\* a limit (offset, count): each an integer or a placeholder, as its text
LimitArgs == { <<"0", "10">>, <<"%d", "%d">> }

\* query.setLimit(lim): Query has no such attribute, the call raises
\* AttributeError and nothing is stored
SetLimit(lim) ==
    /\ alive
    /\ last' = Call("setLimit", TRUE, [kind |-> "limit", v |-> lim])
    /\ before' = includes
    /\ out' = NoString
    /\ prevOut' = NoString
    /\ UNCHANGED <<alive, entity, order, conditions, includes, supplied, peer, cfg>>

SchemaOrderArgs ==
    { OrderNone, OrderTrue,
      OrderList(<< <<"dataset">>, <<"name">> >>),
      OrderList(<< <<"parameters">> >>),
      OrderList(<< <<"name">>, <<"next">> >>) }
SchemaCondArgs ==
    { <<>>,
      <<Item(<<"name", "bogus">>, Str(ExprLiteral))>>,
      <<Item(<<"dataset", "investigation", "facility", "name">>,
             Str(ExprLiteral))>> }
SchemaIncludePaths ==
    { <<"dataset">>,
      <<"dataset", "datafiles", "dataset">>,
      <<"dataset", "investigation", "facility">>,
      <<"investigation", "facility">> }
SchemaIncludeArgs == SUBSET SchemaIncludePaths

SchemaNext ==
    \/ \E e \in DOMAIN EntityInfo, ord \in SchemaOrderArgs,
          conds \in SchemaCondArgs, incl \in SchemaIncludeArgs :
          Construct(e, ord, conds, incl)
    \/ \E ord \in SchemaOrderArgs : SetOrder(ord)
    \/ \E lim \in LimitArgs : SetLimit(lim)
    \/ Render

SpecSchema == Init /\ [][SchemaNext]_vars

(***************************************************************************)
(* icat.config (src/icat/config.py): Config.getconfig.                     *)
(*                                                                         *)
(* Representation.  Every value is a string; None is the string "None",    *)
(* the booleans are "True" and "False", and the list of files that         *)
(* config.configFile holds is the name of the one file read, or "[]".      *)
(* The Config object is the one that Config(args=args) sets up with its    *)
(* default arguments, talking to a server whose authenticators are those   *)
(* of AuthInfo.  No predefined variable has subst set.                     *)
(***************************************************************************)
None == "None"

\* what a call returns: a value, or ConfigError raised
Value(v) == [raised |-> FALSE, value |-> v]
ConfigError == [raised |-> TRUE, value |-> None]

\* value.lower() for the strings that occur
Lower(value) ==
    CASE value = "Yes" -> "yes"
      [] value = "True" -> "true"
      [] value = "False" -> "false"
      [] OTHER -> value

\* boolean(value); ValueError is the result "ValueError"
boolean(value) ==
    IF Lower(value) \in {"0", "no", "n", "false", "f", "off"} THEN "False"
    ELSE IF Lower(value) \in {"1", "yes", "y", "true", "t", "on"} THEN "True"
    ELSE "ValueError"

\* ConfigVariable(name, envvar, optional, default, convert, subst) with the
\* attributes key, interactive, postprocess and disabled set after it
ConfigVariable(name, envvar, optional, default, convert) ==
    [name |-> name, envvar |-> envvar, optional |-> optional,
     default |-> default, convert |-> convert, key |-> None,
     interactive |-> FALSE, postprocess |-> None, disabled |-> FALSE]

\* _add_credential_key(key, hide)
credentialVariable(key, hide) ==
    LET var == IF key = "username" /\ ~hide
               THEN ConfigVariable("username", "ICAT_USER", FALSE, None, None)
               ELSE IF key = "password" /\ hide
               THEN ConfigVariable("password", None, FALSE, None, None)
               ELSE ConfigVariable("cred_" \o key, None, FALSE, None, None)
    IN  [var EXCEPT !.key = key, !.interactive = hide, !.disabled = TRUE]

\* the authenticators of the server: the credential keys of each
AuthInfo ==
    [simple |-> <<[name |-> "username", hide |-> FALSE],
                  [name |-> "password", hide |-> TRUE]>>,
     db |-> <<[name |-> "username", hide |-> FALSE],
              [name |-> "password", hide |-> TRUE]>>,
     anon |-> <<>>]

\* authenticatorInfo.getCredentialKeys(auth), auth one of the authenticators
getCredentialKeys(auth) == { AuthInfo[auth][i].name : i \in DOMAIN AuthInfo[auth] }

\* authenticatorInfo.getCredentialKeys(None, hide=hide)
getAllCredentialKeys(hide) ==
    UNION { { AuthInfo[a][i].name :
                i \in { j \in DOMAIN AuthInfo[a] : AuthInfo[a][j].hide = hide } } :
            a \in DOMAIN AuthInfo }

\* self.confvariables after Config.__init__, in the order of definition
confvariables ==
    << [ConfigVariable("configFile", "ICAT_CFG", TRUE, None, None)
          EXCEPT !.postprocess = "post_configFile"],
       [ConfigVariable("configSection", "ICAT_CFG_SECTION", TRUE, None, None)
          EXCEPT !.postprocess = "post_configSection"],
       ConfigVariable("url", "ICAT_SERVICE", FALSE, None, None),
       ConfigVariable("idsurl", "ICAT_DATA_SERVICE", TRUE, None, None),
       ConfigVariable("checkCert", None, FALSE, "True", "boolean"),
       ConfigVariable("http_proxy", "http_proxy", TRUE, None, None),
       ConfigVariable("https_proxy", "https_proxy", TRUE, None, None),
       ConfigVariable("no_proxy", "no_proxy", TRUE, None, None),
       [ConfigVariable("auth", "ICAT_AUTH", FALSE, None, None)
          EXCEPT !.postprocess = "post_auth"],
       credentialVariable("username", FALSE),
       [ConfigVariable("promptPass", None, FALSE, "False", "boolean")
          EXCEPT !.postprocess = "post_promptPass"],
       credentialVariable("password", TRUE) >>

\* self.credentialKey: the variable of each credential key
credentialKey ==
    [ k \in getAllCredentialKeys(FALSE) \cup getAllCredentialKeys(TRUE) |->
        CHOOSE i \in DOMAIN confvariables : confvariables[i].key = k ]

\* the content of the configuration file, by section; test_invalid is a
\* section with a value that boolean() rejects
configfilestr ==
    [example_root |->
        [url |-> "url_file", auth |-> "simple", username |-> "root",
         password |-> "secret", idsurl |-> "idsurl_file"],
     example_nbour |->
        [url |-> "url_file", auth |-> "ldap", username |-> "nbour"],
     example_anon |->
        [url |-> "url_file", auth |-> "anon"],
     test21 |->
        [url |-> "url_file", auth |-> "simple", username |-> "root",
         password |-> "secret", promptPass |-> "Yes"],
     test_invalid |->
        [url |-> "url_file", auth |-> "simple", username |-> "root",
         password |-> "secret", promptPass |-> "maybe"]]

\* the files that exist; none of the default files does
ReadableFiles == {"icat.cfg"}

\* variable.get(value): ConfigVariable.get
variableGet(var, value) ==
    IF var.convert = "boolean" /\ value # None
    THEN IF boolean(value) = "ValueError" THEN ConfigError
         ELSE Value(boolean(value))
    ELSE Value(value)

\* ConfigSourceCmdArgs.get(variable)
ConfigSourceCmdArgs(var, in) ==
    variableGet(var, IF var.name \in DOMAIN in.args
                     THEN in.args[var.name] ELSE None)

\* ConfigSourceEnvironment.get(variable)
ConfigSourceEnvironment(var, in) ==
    IF var.envvar # None
    THEN variableGet(var, IF var.envvar \in DOMAIN in.environ
                          THEN in.environ[var.envvar] ELSE None)
    ELSE Value(None)

\* ConfigSourceFile.get(variable), st.section being self.section
ConfigSourceFile(var, st) ==
    variableGet(var, IF st.section # None
                        /\ var.name \in DOMAIN configfilestr[st.section]
                     THEN configfilestr[st.section][var.name]
                     ELSE None)

\* ConfigSourceInteractive.get(variable), in.typed being what getpass returns
ConfigSourceInteractive(var, in) ==
    IF ~var.interactive THEN Value(None)
    ELSE variableGet(var, in.typed)

\* mutant: a mandatory variable without default is None, not an error
ConfigSourceDefaultNoRaise(var) == variableGet(var, var.default)

\* ConfigSourceDefault.get(variable)
ConfigSourceDefault(var) ==
    IF var.default = None /\ ~var.optional THEN ConfigError
    ELSE variableGet(var, var.default)

\* source.get(variable) of the five ConfigSource classes; st is the state
\* of the Config object, in what the call is given from outside
sourceGet(source, var, st, in) ==
    CASE source = "cmdargs" -> ConfigSourceCmdArgs(var, in)
      [] source = "environ" -> ConfigSourceEnvironment(var, in)
      [] source = "conffile" -> ConfigSourceFile(var, st)
      [] source = "interactive" -> ConfigSourceInteractive(var, in)
      [] source = "defaults" -> ConfigSourceDefault(var)

\* mutant: the configuration file is asked before the environment
sourcesFileFirst ==
    <<"cmdargs", "conffile", "environ", "interactive", "defaults">>

\* self.sources as _getconfig sets it up
sources == <<"cmdargs", "environ", "conffile", "interactive", "defaults">>

RECURSIVE firstValue(_, _, _, _)
\* the inner loop of _getconfig: the first value that is not None, and the
\* source that gave it
firstValue(srcs, var, st, in) ==
    IF srcs = <<>> THEN [raised |-> FALSE, value |-> None, source |-> None]
    ELSE LET r == sourceGet(Head(srcs), var, st, in) IN
         IF r.raised THEN [raised |-> TRUE, value |-> None, source |-> None]
         ELSE IF r.value # None
         THEN [raised |-> FALSE, value |-> r.value, source |-> Head(srcs)]
         ELSE firstValue(Tail(srcs), var, st, in)

\* list.remove(x)
Remove(l, x) == SelectSeq(l, LAMBDA y : y # x)

\* post_configFile: conffile.read(configuration.configFile)
post_configFile(st) ==
    IF st.config.configFile # None
    THEN IF st.config.configFile \in ReadableFiles
         THEN [st EXCEPT !.sections = DOMAIN configfilestr]
         ELSE [st EXCEPT !.raised = TRUE]
    ELSE [st EXCEPT !.config.configFile = "[]"]

\* post_configSection: conffile.setsection(configuration.configSection)
post_configSection(st) ==
    IF st.config.configSection # None
       /\ st.config.configSection \notin st.sections
    THEN [st EXCEPT !.raised = TRUE]
    ELSE [st EXCEPT !.section = st.config.configSection]

\* mutant: every credential variable is enabled
post_authEnableAll(st) ==
    IF st.config.auth \notin DOMAIN AuthInfo
    THEN [st EXCEPT !.raised = TRUE]
    ELSE [st EXCEPT !.disabled =
             @ \ { confvariables[credentialKey[k]].name :
                     k \in DOMAIN credentialKey }]

\* post_auth: enable the credential keys of the selected authenticator
post_auth(st) ==
    IF st.config.auth \notin DOMAIN AuthInfo
    THEN [st EXCEPT !.raised = TRUE]
    ELSE [st EXCEPT !.disabled =
             @ \ { confvariables[credentialKey[k]].name :
                     k \in getCredentialKeys(st.config.auth) }]

\* mutant: a credential in cmdargs does not move the interactive source
post_promptPassNoSecond(st) ==
    IF st.config.promptPass = "True"
    THEN [st EXCEPT !.sources =
             <<"interactive">> \o Remove(@, "interactive")]
    ELSE st

\* mutant: promptPass set leaves the sources as they are
post_promptPassNoMove(st) ==
    IF st.config.promptPass = "True"
    THEN st
    ELSE IF st.source.promptPass = "defaults"
            /\ \E k \in DOMAIN credentialKey :
                  LET n == confvariables[credentialKey[k]].name
                  IN  n \in DOMAIN st.source /\ st.source[n] = "cmdargs"
    THEN [st EXCEPT !.sources =
             <<Head(Remove(@, "interactive")), "interactive">>
             \o Tail(Remove(@, "interactive"))]
    ELSE st

\* post_promptPass: move the interactive source to the front if promptPass
\* is set, behind cmdargs if it is not given and a credential is in cmdargs
post_promptPass(st) ==
    IF st.config.promptPass = "True"
    THEN [st EXCEPT !.sources =
             <<"interactive">> \o Remove(@, "interactive")]
    ELSE IF st.source.promptPass = "defaults"
            /\ \E k \in DOMAIN credentialKey :
                  LET n == confvariables[credentialKey[k]].name
                  IN  n \in DOMAIN st.source /\ st.source[n] = "cmdargs"
    THEN [st EXCEPT !.sources =
             <<Head(Remove(@, "interactive")), "interactive">>
             \o Tail(Remove(@, "interactive"))]
    ELSE st

\* var.postprocess(self, config)
postprocess(var, st) ==
    CASE var.postprocess = "post_configFile" -> post_configFile(st)
      [] var.postprocess = "post_configSection" -> post_configSection(st)
      [] var.postprocess = "post_auth" -> post_auth(st)
      [] var.postprocess = "post_promptPass" -> post_promptPass(st)
      [] OTHER -> st

RECURSIVE getconfigLoop(_, _, _)
\* the loop of _getconfig over the remaining variables; failed is the
\* variable at which ConfigError was raised
getconfigLoop(vs, st, in) ==
    IF vs = <<>> \/ st.raised THEN st
    ELSE LET var == Head(vs) IN
         IF var.name \in st.disabled THEN getconfigLoop(Tail(vs), st, in)
         ELSE LET r == firstValue(st.sources, var, st, in) IN
              IF r.raised THEN [st EXCEPT !.raised = TRUE, !.failed = var.name]
              ELSE LET set == [st EXCEPT
                                 !.config = (var.name :> r.value) @@ @,
                                 !.source = IF r.value # None
                                            THEN (var.name :> r.source) @@ @
                                            ELSE @]
                       post == postprocess(var, set)
                   IN  IF post.raised THEN [post EXCEPT !.failed = var.name]
                       ELSE getconfigLoop(Tail(vs), post, in)

\* _getconfig(): the state of the Config object when the loop is through
getconfigRun(in) ==
    getconfigLoop(confvariables,
                  [config |-> <<>>, source |-> <<>>, sources |-> sources,
                   disabled |-> { confvariables[i].name :
                                    i \in { j \in DOMAIN confvariables :
                                              confvariables[j].disabled } },
                   sections |-> {}, section |-> None, raised |-> FALSE,
                   failed |-> None],
                  in)

\* getconfig(): ConfigError, or the configuration with its credentials;
\* partial is what _getconfig had set when it returned or raised
getconfig(in) ==
    LET st == getconfigRun(in) IN
    IF st.raised
    THEN [called |-> TRUE, args |-> in.args, environ |-> in.environ,
          raised |-> TRUE, config |-> <<>>, credentials |-> <<>>,
          source |-> <<>>, sources |-> st.sources, disabled |-> st.disabled,
          failed |-> st.failed, partial |-> st.config]
    ELSE [called |-> TRUE, args |-> in.args, environ |-> in.environ,
          raised |-> FALSE, config |-> st.config,
          credentials |->
              [ k \in getCredentialKeys(st.config.auth) |->
                  st.config[confvariables[credentialKey[k]].name] ],
          source |-> st.source, sources |-> st.sources,
          disabled |-> st.disabled,
          failed |-> None, partial |-> st.config]

\* the command line, the environment and what the user types at a prompt
CmdArgs ==
    [configFile : {None, "icat.cfg", "missing.cfg"},
     configSection : {None, "example_root", "example_nbour", "example_anon",
                      "test21", "test_invalid"},
     url : {None, "url_cmd"},
     auth : {None, "db", "anon"},
     username : {None, "rbeck"},
     password : {None, "geheim"},
     promptPass : {None, "True"}]
Environ ==
    [ICAT_CFG : {None, "icat.cfg"},
     ICAT_SERVICE : {None, "url_env"},
     ICAT_AUTH : {None, "simple"},
     ICAT_USER : {None, "jdoe"}]
Typed == "mockpass"

\* conf = Config(args=args).getconfig() in the environment environ
Getconfig(args, environ) ==
    /\ ~cfg.called
    /\ cfg' = getconfig([args |-> args, environ |-> environ, typed |-> Typed])
    /\ UNCHANGED <<alive, entity, order, conditions, includes, last, before,
                   out, prevOut, supplied, peer>>

ConfigNext == \E args \in CmdArgs, environ \in Environ : Getconfig(args, environ)

SpecConfig == Init /\ [][ConfigNext]_vars

(***************************************************************************)
(* Reading a rendered query: its clauses and the terms of its WHERE        *)
(* clause.  No condition expression contains a clause keyword.             *)
(***************************************************************************)
IndexOf(s, tok) ==
    IF tok \in Range(s) THEN CHOOSE i \in DOMAIN s :
                                 s[i] = tok /\ \A j \in 1 .. (i - 1) : s[j] # tok
    ELSE 0

\* the text of s from position i up to the next of the keywords stops
UpTo(s, i, stops) ==
    LET ends == { j \in i .. Len(s) : s[j] \in stops }
        e == IF ends = {} THEN Len(s) + 1
             ELSE CHOOSE j \in ends : \A k \in ends : j <= k
    IN  SubSeq(s, i, e - 1)

WhereClause(s) ==
    IF IndexOf(s, " WHERE ") = 0 THEN <<>>
    ELSE UpTo(s, IndexOf(s, " WHERE ") + 1, {" ORDER BY ", " INCLUDE "})

RECURSIVE SplitOn(_, _)
\* s.split(sep), and no part at all for the empty text
SplitOn(s, sep) ==
    IF s = <<>> THEN <<>>
    ELSE IF IndexOf(s, sep) = 0 THEN <<s>>
    ELSE <<SubSeq(s, 1, IndexOf(s, sep) - 1)>>
         \o SplitOn(SubSeq(s, IndexOf(s, sep) + 1, Len(s)), sep)

WhereTermsOf(s) == SplitOn(WhereClause(s), " AND ")
\* the parts of a WHERE term before and after its first blank
TermAttr(t) == SubSeq(t, 1, IndexOf(t, " ") - 1)
TermExpr(t) == SubSeq(t, IndexOf(t, " ") + 1, Len(t))

\* the (path, expression) pairs held, paths sorted, expressions as added
HeldPairs(conds) ==
    LET ks == sorted(Range(Keys(conds)))
    IN  Flatten([ i \in DOMAIN ks |->
                    [ j \in DOMAIN AsList(Lookup(conds, ks[i])) |->
                        [path |-> ks[i],
                         expr |-> AsList(Lookup(conds, ks[i]))[j]] ] ])

\* the qualifier of a path: "o", or the alias that the JOINs give its parent
Qualifier(p) ==
    IF Len(p) = 1 THEN "o"
    ELSE makesubst(Range(order) \cup Range(Keys(conditions)))
             [SubSeq(p, 1, Len(p) - 1)]

Held(p) ==
    IF p \in Range(Keys(conditions)) THEN AsList(Lookup(conditions, p)) ELSE <<>>

Reverse(s) == [ i \in DOMAIN s |-> s[Len(s) + 1 - i] ]

(***************************************************************************)
(* C1: calling str(query) twice in a row, with no call in between, gives   *)
(* the same string both times.                                             *)
(***************************************************************************)
C1_RenderIdempotent ==
    (last.op = "str" /\ prevOut # NoString) => out = prevOut

C1_Witness ==
    /\ last.op = "str"
    /\ prevOut # NoString
    /\ \E p \in includes : Len(p) > 1
    /\ " INCLUDE " \in Range(out)

(***************************************************************************)
(* C2: str(query) leaves entity, order, conditions and includes of the     *)
(* query as they were before the call.                                     *)
(***************************************************************************)
C2_RenderSideEffectFree ==
    [][ last'.op = "str" =>
          /\ entity' = entity
          /\ order' = order
          /\ conditions' = conditions
          /\ includes' = includes ]_vars

(***************************************************************************)
(* C4: the expressions held for a path are all the expressions ever        *)
(* passed for it, in call order, a string counting as a list of one; the   *)
(* query renders like one built with these lists in a single call.         *)
(***************************************************************************)
BuiltAtOnce ==
    addConditions(<<>>, [ i \in DOMAIN conditions |->
                            Item(conditions[i].key,
                                 List(supplied[conditions[i].key])) ])

C4_ConditionsAccumulate ==
    alive =>
       /\ \A p \in CondPaths : Held(p) = supplied[p]
       /\ str(entity, order, conditions, includes)
            = str(entity, order, BuiltAtOnce, includes)

C4_Witness ==
    /\ alive
    /\ last.op = "addConditions"
    /\ \E p \in CondPaths :
         /\ supplied[p] = <<ExprLiteral, ExprPlaceholder>>
         /\ Held(p) = supplied[p]

(***************************************************************************)
(* C5: every WHERE term is <qualifier>.<final segment> <expression>, the   *)
(* qualifier being "o" for a path of one segment and else the alias of     *)
(* the parent of the path, with nothing between attribute and expression.  *)
(***************************************************************************)
C5_WhereTermForm ==
    last.op = "str" =>
       /\ Len(WhereTermsOf(out)) = Len(HeldPairs(conditions))
       /\ \A i \in DOMAIN HeldPairs(conditions) :
            LET h == HeldPairs(conditions)[i]
            IN  WhereTermsOf(out)[i]
                  = <<Qualifier(h.path), ".", h.path[Len(h.path)], " ">>
                    \o h.expr

(***************************************************************************)
(* C6: the WHERE terms come sorted by path, those of one path in the order *)
(* in which their expressions were added, and the order in which the       *)
(* paths were inserted into the dict does not change the string.           *)
(***************************************************************************)
C6_WhereTermOrder ==
    last.op = "str" =>
       /\ Len(WhereTermsOf(out)) = Len(HeldPairs(conditions))
       /\ \A i \in DOMAIN HeldPairs(conditions) :
            LET h == HeldPairs(conditions)[i]
                t == WhereTermsOf(out)[i]
            IN  /\ SubSeq(TermAttr(t), 1, 3)
                     = <<Qualifier(h.path), ".", h.path[Len(h.path)]>>
                /\ TermExpr(t) = h.expr
       /\ out = str(entity, order, Reverse(conditions), before)

C6_Witness ==
    /\ last.op = "str"
    /\ Len(conditions) = 2
    /\ PathLess(conditions[2].key, conditions[1].key)
    /\ \E i \in DOMAIN conditions :
         /\ Len(AsList(conditions[i].val)) = 2
         /\ AsList(conditions[i].val)[1] # AsList(conditions[i].val)[2]

(***************************************************************************)
(* C7: formatting the rendered string with a value for each placeholder    *)
(* gives the string rendered from the conditions formatted beforehand.     *)
(***************************************************************************)
Values == [name |-> "X"]
\* text % Values
Format(text) ==
    [ i \in DOMAIN text |->
        IF text[i] = "%(name)s" THEN Values.name ELSE text[i] ]
FormatValue(val) ==
    IF val.kind = "str" THEN Str(Format(val.v))
    ELSE List([ i \in DOMAIN val.v |-> Format(val.v[i]) ])
FormatConds(conds) ==
    [ i \in DOMAIN conds |-> Item(conds[i].key, FormatValue(conds[i].val)) ]

C7_RenderCommutesWithFormat ==
    last.op = "str" =>
        Format(out) = str(entity, order, FormatConds(conditions), before)

C7_Witness ==
    /\ last.op = "str"
    /\ "%(name)s" \in Range(out)
    /\ Format(out) # out
    /\ \E i \in DOMAIN conditions :
         AsList(conditions[i].val) = <<ExprPlaceholder, ExprLiteral>>

(***************************************************************************)
(* C8: addIncludes(S) makes the include set the union of what it was and   *)
(* S; a path that is already there, None or nothing changes nothing.       *)
(***************************************************************************)
C8_AddIncludesIsUnion ==
    last.op = "addIncludes" =>
       /\ \A p \in includes : p \in before \/ p \in last.arg.v
       /\ \A p \in before \cup last.arg.v : p \in includes
       /\ (last.arg.v \subseteq before => includes = before)
       /\ Cardinality(includes)
            = Cardinality(before) + Cardinality(last.arg.v \ before)

C8_Witness ==
    /\ last.op = "addIncludes"
    /\ last.arg.v = {<<"dataset">>}
    /\ before = {<<"dataset">>}
    /\ includes = {<<"dataset">>}

(***************************************************************************)
(* C9: the constructor and setOrder raise for an explicit order entry      *)
(* that names an unknown attribute, goes on after a plain attribute or     *)
(* has a one to many relationship anywhere; no Query holds such an entry.  *)
(***************************************************************************)
RECURSIVE Orderable(_, _)
\* the path is zero or more many to one relations, then maybe an attribute
Orderable(e, path) ==
    \/ path = <<>>
    \/ /\ Head(path) \in DOMAIN EntityInfo[e].fields
       /\ LET f == EntityInfo[e].fields[Head(path)]
          IN  \/ f.relType = "ATTRIBUTE" /\ Len(path) = 1
              \/ f.relType = "ONE" /\ Orderable(f.type, Tail(path))

RECURSIVE EndsInAttribute(_, _)
EndsInAttribute(e, path) ==
    /\ path # <<>>
    /\ Head(path) \in DOMAIN EntityInfo[e].fields
    /\ LET f == EntityInfo[e].fields[Head(path)]
       IN  \/ f.relType = "ATTRIBUTE" /\ Len(path) = 1
           \/ f.relType = "ONE" /\ EndsInAttribute(f.type, Tail(path))

C9_OrderValidatedWhenSet ==
    /\ (/\ last.op \in {"Query", "setOrder"}
        /\ last.arg.kind = "list"
        /\ \E i \in DOMAIN last.arg.v : ~Orderable(entity, last.arg.v[i]))
       => last.raised
    /\ (last.op = "Query" /\ last.raised) => ~alive
    /\ alive => \A i \in DOMAIN order : EndsInAttribute(entity, order[i])

C9_Witness ==
    /\ alive
    /\ entity = "Datafile"
    /\ last.op = "setOrder"
    /\ last.raised
    /\ last.arg.v = << <<"dataset">>, <<"dataset", "datafiles", "name">> >>
    /\ order = Prefixed(<<"dataset">>, getnaturalorder("Dataset"))

(***************************************************************************)
(* C10: an explicit order entry that ends in a plain attribute is taken as *)
(* it is, one that ends in a many to one relation is replaced, where it    *)
(* stands, by the natural order of the related type, each element          *)
(* prefixed with the entry.                                                *)
(***************************************************************************)
RECURSIVE RelatedType(_, _)
\* the entity type that a path of many to one relations leads to
RelatedType(e, path) ==
    IF path = <<>> THEN e
    ELSE RelatedType(EntityInfo[e].fields[Head(path)].type, Tail(path))

Expansion(e, entry) ==
    IF EndsInAttribute(e, entry) THEN <<entry>>
    ELSE LET nat == getnaturalorder(RelatedType(e, entry))
         IN  [ i \in DOMAIN nat |-> entry \o nat[i] ]

C10_ExplicitOrderExpansion ==
    (/\ last.op \in {"Query", "setOrder"}
     /\ last.arg.kind = "list"
     /\ ~last.raised)
    => order = Flatten([ i \in DOMAIN last.arg.v |->
                           Expansion(entity, last.arg.v[i]) ])

C10_Witness ==
    /\ last.op = "setOrder"
    /\ ~last.raised
    /\ entity = "Datafile"
    /\ last.arg.v = << <<"dataset">>, <<"name">> >>
    /\ Len(order) = 5
    /\ order[4] = <<"dataset", "name">>
    /\ order[5] = <<"name">>

(***************************************************************************)
(* C3: two Query objects with equal entity, equal order, equal conditions  *)
(* and equal includes render the same string, however each was built.      *)
(***************************************************************************)
Items(d) == Range(d)
SameState(q, r) ==
    /\ q.entity = r.entity
    /\ q.order = r.order
    /\ Items(q.conditions) = Items(r.conditions)
    /\ q.includes = r.includes
StrOf(q) == str(q.entity, q.order, q.conditions, q.includes)

C3_RenderDeterminedByState ==
    SameState(Self, peer) => StrOf(Self) = StrOf(peer)

C3_Witness ==
    /\ SameState(Self, peer)
    /\ Len(conditions) = 2
    /\ conditions # peer.conditions
    /\ order # <<>>
    /\ <<"dataset">> \in includes

(***************************************************************************)
(* The natural order.                                                      *)
(***************************************************************************)
\* the last call has set the natural order: Query(..., order=True) or
\* setOrder(True)
NaturalOrderSet ==
    /\ alive
    /\ last.op \in {"Query", "setOrder"}
    /\ ~last.raised
    /\ last.arg = OrderTrue

\* no natural-sort attributes and no business key
NoBusinessKey(e) ==
    /\ EntityInfo[e].SortAttrs = <<>>
    /\ Range(EntityInfo[e].Constraint) \subseteq {"id"}

OrderByClause(s) ==
    IF IndexOf(s, " ORDER BY ") = 0 THEN <<>>
    ELSE UpTo(s, IndexOf(s, " ORDER BY ") + 1, {" INCLUDE ", " LIMIT "})

OrderByEntries(s) == SplitOn(OrderByClause(s), ", ")

(***************************************************************************)
(* C12: a Query built with order=True holds getnaturalorder(entity) as its *)
(* order list, and its rendered ORDER BY clause has one entry per element  *)
(* of that list, in the same sequence, each entry being the alias of the   *)
(* parent of the path (or "o"), a dot and the final attribute name.        *)
(***************************************************************************)
C12_NaturalOrderRoundTrip ==
    /\ NaturalOrderSet => order = getnaturalorder(entity)
    /\ (last.op = "str" /\ ~RecursionError(entity)
           /\ order = getnaturalorder(entity))
       => OrderByEntries(out)
            = [ i \in DOMAIN order |->
                  <<Qualifier(order[i]), ".", order[i][Len(order[i])]>> ]

RECURSIVE Kinds(_, _)
\* the kinds of the components of a path, resolved from entity type e on
Kinds(e, path) ==
    IF path = <<>> THEN <<>>
    ELSE LET f == getAttrInfo(e, Head(path))
         IN  <<f.relType>>
             \o IF f.relType \in {"ONE", "MANY"} /\ f.type \in DOMAIN EntityInfo
                THEN Kinds(f.type, Tail(path))
                ELSE [ i \in 1 .. (Len(path) - 1) |-> "UNKNOWN" ]

(***************************************************************************)
(* C13: after a constructor or setOrder call that did not raise, with the  *)
(* natural or an explicit order, every entry of query.order is zero or     *)
(* more many to one relations followed by exactly one plain attribute.     *)
(***************************************************************************)
C13_OrderEntriesEndInAttribute ==
    (alive /\ last.op \in {"Query", "setOrder"} /\ ~last.raised)
    => \A i \in DOMAIN order :
          LET k == Kinds(entity, order[i])
          IN  /\ k # <<>>
              /\ k[Len(k)] = "ATTRIBUTE"
              /\ \A j \in 1 .. (Len(k) - 1) : k[j] = "ONE"

C13_Witness ==
    /\ NaturalOrderSet
    /\ entity = "DataCollection"
    /\ EntityInfo[entity].SortAttrs # <<>>
    /\ \A i \in DOMAIN EntityInfo[entity].SortAttrs :
          getAttrInfo(entity, EntityInfo[entity].SortAttrs[i]).relType = "MANY"
    /\ order = << <<"id">> >>

\* the path resolves against the metadata: every component is an attribute
\* of the type reached so far, and nothing goes on after a plain attribute
Resolves(e, path) == "UNKNOWN" \notin Range(Kinds(e, path))

(***************************************************************************)
(* C14: addConditions and addIncludes accept any path, and str(query) on a *)
(* Query that holds a condition or include path which does not resolve     *)
(* against the metadata raises instead of returning a query string.        *)
(***************************************************************************)
C14_UnresolvablePathFailsAtRender ==
    /\ last.op \in {"addConditions", "addIncludes"} => ~last.raised
    /\ (/\ last.op = "str"
        /\ \E p \in Range(Keys(conditions)) \cup before : ~Resolves(entity, p))
       => (last.raised /\ out = NoString)

(***************************************************************************)
(* C15: setLimit((offset, count)) is accepted, and the string rendered     *)
(* after it is the rendering of the query without a limit followed by      *)
(* " LIMIT <offset>, <count>", offset and count verbatim.                  *)
(***************************************************************************)
C15_LimitIsLastClause ==
    [][ /\ last'.op = "setLimit" => ~last'.raised
        /\ (last.op = "setLimit" /\ last'.op = "str")
           => out' = str(entity, order, conditions, includes)
                     \o <<" LIMIT ", last.arg.v[1], ", ", last.arg.v[2]>> ]_vars

(***************************************************************************)
(* The alias tables.                                                       *)
(***************************************************************************)
ProperPrefixes(objs) ==
    UNION { { SubSeq(p, 1, i) : i \in 1 .. (Len(p) - 1) } : p \in objs }

Injective(f) == \A a \in DOMAIN f : \A b \in DOMAIN f : f[a] = f[b] => a = b

\* the counter tokens s1 .. sn
CounterTokens(n) == { "s" \o ToString(i) : i \in 1 .. n }

\* the alias labels of a rendered text, in sequence
AliasesOf(s) ==
    LET at == { i \in DOMAIN s : s[i] = " AS " }
        RECURSIVE walk(_)
        walk(i) == IF i > Len(s) THEN <<>>
                   ELSE IF i \in at THEN <<s[i + 1]>> \o walk(i + 2)
                   ELSE walk(i + 1)
    IN  walk(1)

AliasTableOk(objs) ==
    LET subst == makesubst(objs)
        n == Cardinality(DOMAIN subst)
    IN  /\ DOMAIN subst = ProperPrefixes(objs)
        /\ Injective(subst)
        /\ CounterTokens(n) \cap Range(substnames) = {}
        /\ \A o \in DOMAIN subst :
              \/ o \in DOMAIN substnames /\ subst[o] = substnames[o]
              \/ subst[o] \in CounterTokens(n)

(***************************************************************************)
(* C16: makesubst gives an alias to every proper prefix of every path and  *)
(* to nothing else, no two prefixes get the same alias, every alias is the *)
(* symbolic name of its prefix or a counter token, and a second rendering  *)
(* of the same query uses the same aliases.                                *)
(***************************************************************************)
C16_AliasAllocationInjective ==
    alive =>
       /\ AliasTableOk(includes)
       /\ AliasTableOk(Range(order) \cup Range(Keys(conditions)))
       /\ (last.op = "str" /\ prevOut # NoString)
            => AliasesOf(out) = AliasesOf(prevOut)
       /\ last.op = "str"
            => LET subst == makesubst(Range(order) \cup Range(Keys(conditions)))
                   isubst == makesubst(before)
               IN  Range(AliasesOf(out)) = Range(subst) \cup Range(isubst)

C16_Witness ==
    /\ last.op = "str"
    /\ prevOut # NoString
    /\ <<"investigation", "facility">> \in before
    /\ <<"dataset", "investigation", "facility">> \in before
    /\ makesubst(before)[<<"dataset", "investigation">>] = "i"
    /\ makesubst(before)[<<"investigation">>] = "s1"
    /\ "s1" \in Range(AliasesOf(out))

\* the JOIN clauses of a rendered query, each without its keyword
JoinEntries(s) ==
    IF IndexOf(s, " JOIN ") = 0 THEN <<>>
    ELSE SplitOn(UpTo(s, IndexOf(s, " JOIN ") + 1,
                      {" WHERE ", " ORDER BY ", " INCLUDE ", " LIMIT "}),
                 " JOIN ")

\* the entries of the INCLUDE clause of a rendered query
IncludeEntries(s) ==
    IF IndexOf(s, " INCLUDE ") = 0 THEN <<>>
    ELSE SplitOn(UpTo(s, IndexOf(s, " INCLUDE ") + 1, {" LIMIT "}), ", ")

RECURSIVE Bindings(_, _)
\* the <<alias, relation path>> pairs that a clause declares with AS, each
\* entry read as <qualifier>.<name> [AS <alias>]; tab maps the aliases seen
\* so far (and "o") to their paths
Bindings(entries, tab) ==
    IF entries = <<>> THEN {}
    ELSE LET e == Head(entries)
             path == tab[e[1]] \o <<e[3]>>
         IN  IF Len(e) = 5
             THEN {<<e[5], path>>}
                  \cup Bindings(Tail(entries), (e[5] :> path) @@ tab)
             ELSE Bindings(Tail(entries), tab)

BindingsOf(entries) == Bindings(entries, "o" :> <<>>)

(***************************************************************************)
(* C17: in one rendered string no alias is bound to two different relation *)
(* paths, and a relation path that is bound in the JOIN clauses and in the *)
(* INCLUDE clause has the same alias in both.                              *)
(***************************************************************************)
C17_OneAliasTable ==
    last.op = "str" =>
        LET bound == BindingsOf(JoinEntries(out))
                     \cup BindingsOf(IncludeEntries(out))
        IN  \A x \in bound : \A y \in bound : (x[1] = y[1]) <=> (x[2] = y[2])

(***************************************************************************)
(* C18 as claimed: every entry of the rendered INCLUDE clause is           *)
(* <path> AS <alias>, whether or not the included path is a prefix of      *)
(* another included path.                                                  *)
(***************************************************************************)
C18_EveryIncludeHasAlias ==
    last.op = "str" =>
        \A i \in DOMAIN IncludeEntries(out) :
            /\ Len(IncludeEntries(out)[i]) = 5
            /\ IncludeEntries(out)[i][4] = " AS "

(***************************************************************************)
(* C18 as amended: the INCLUDE clause has one entry per included path and  *)
(* per proper prefix of one, sorted; the entry of a path that is a proper  *)
(* prefix of an included path is <qualifier>.<name> AS <alias>, the entry  *)
(* of any other path is <qualifier>.<name> without an alias label.         *)
(***************************************************************************)
C18_IncludeAliasOnPrefixesOnly ==
    last.op = "str" =>
        LET ks == sorted(before \cup ProperPrefixes(before))
            es == IncludeEntries(out)
            isubst == makesubst(before)
        IN  /\ Len(es) = Len(ks)
            /\ \A i \in DOMAIN ks :
                  LET p == ks[i]
                      q == IF Len(p) = 1 THEN "o"
                           ELSE isubst[SubSeq(p, 1, Len(p) - 1)]
                      n == <<q, ".", p[Len(p)]>>
                  IN  IF p \in ProperPrefixes(before)
                      THEN es[i] = n \o <<" AS ", isubst[p]>>
                      ELSE es[i] = n

C18_Witness ==
    /\ last.op = "str"
    /\ before = { <<"dataset", "investigation", "facility">> }
    /\ IncludeEntries(out)
         = << <<"o", ".", "dataset", " AS ", "ds">>,
              <<"ds", ".", "investigation", " AS ", "i">>,
              <<"i", ".", "facility">> >>

\* the positions of a keyword in a rendered text
Positions(s, tok) == { i \in DOMAIN s : s[i] = tok }

\* every position of keyword a comes before every position of keyword b
Precedes(s, a, b) ==
    \A i \in Positions(s, a) : \A j \in Positions(s, b) : i < j

(***************************************************************************)
(* C19: the rendered string is SELECT o FROM <entity> o, then the JOIN     *)
(* clauses, the WHERE clause, the ORDER BY clause and the INCLUDE clause   *)
(* in this order; WHERE is there exactly if the query holds at least one   *)
(* condition expression, ORDER BY exactly if the order list is not empty,  *)
(* INCLUDE exactly if the include set is not empty, and there are as many  *)
(* WHERE terms as condition expressions.                                   *)
(***************************************************************************)
C19_ClauseStructure ==
    last.op = "str" =>
        /\ SubSeq(out, 1, 3) = <<"SELECT o FROM ", entity, " o">>
        /\ Precedes(out, " JOIN ", " WHERE ")
        /\ Precedes(out, " JOIN ", " ORDER BY ")
        /\ Precedes(out, " JOIN ", " INCLUDE ")
        /\ Precedes(out, " WHERE ", " ORDER BY ")
        /\ Precedes(out, " WHERE ", " INCLUDE ")
        /\ Precedes(out, " ORDER BY ", " INCLUDE ")
        /\ Cardinality(Positions(out, " WHERE "))
             = (IF CountExprs(conditions) > 0 THEN 1 ELSE 0)
        /\ Cardinality(Positions(out, " ORDER BY "))
             = (IF order # <<>> THEN 1 ELSE 0)
        /\ Cardinality(Positions(out, " INCLUDE "))
             = (IF before # {} THEN 1 ELSE 0)
        /\ Len(WhereTermsOf(out)) = CountExprs(conditions)


(***************************************************************************)
(* C20: precedence of the configuration sources                            *)
(***************************************************************************)

\* the variables getconfig() evaluated: the attributes of the configuration
Evaluated == { i \in DOMAIN confvariables : confvariables[i].name \in DOMAIN cfg.config }

\* what each source holds for a variable, as the configuration stores it
Converted(var, value) ==
    IF var.convert = "boolean" /\ value # None THEN boolean(value) ELSE value
ArgValue(var) ==
    Converted(var, IF var.name \in DOMAIN cfg.args THEN cfg.args[var.name] ELSE None)
EnvValue(var) ==
    Converted(var, IF var.envvar # None /\ var.envvar \in DOMAIN cfg.environ
                   THEN cfg.environ[var.envvar] ELSE None)
FileValue(var) ==
    LET section == IF "configSection" \in DOMAIN cfg.partial
                   THEN cfg.partial.configSection ELSE None IN
    Converted(var, IF var.name \notin {"configFile", "configSection"}
                      /\ section # None
                      /\ var.name \in DOMAIN configfilestr[section]
                   THEN configfilestr[section][var.name] ELSE None)
DefaultValue(var) == Converted(var, var.default)

\* the value of the first of the four sources that defines the variable
FirstDefined(var) ==
    IF ArgValue(var) # None THEN ArgValue(var)
    ELSE IF EnvValue(var) # None THEN EnvValue(var)
    ELSE IF FileValue(var) # None THEN FileValue(var)
    ELSE DefaultValue(var)

\* a command line value stays unless the env, the file or the default
\* replace it, and an environment value unless the file replaces it
NeverReplaced(var) ==
    LET value == cfg.config[var.name] IN
    /\ (ArgValue(var) # None /\ value # ArgValue(var))
          => value \notin {EnvValue(var), FileValue(var), DefaultValue(var)}
    /\ (ArgValue(var) = None /\ EnvValue(var) # None /\ value # EnvValue(var))
          => value # FileValue(var)

Prompted(var) ==
    /\ var.name \in DOMAIN cfg.source
    /\ cfg.source[var.name] = "interactive"

\* when a hidden credential is asked for at the prompt: always if promptPass
\* is set; else, unless the command line defines it, if promptPass is not
\* given and another credential is given on the command line, or if neither
\* the environment nor the file defines it
PromptAsked(var) ==
    \/ cfg.config.promptPass = "True"
    \/ /\ ArgValue(var) = None
       /\ \/ /\ cfg.source.promptPass = "defaults"
             /\ \E j \in Evaluated :
                   /\ confvariables[j].key # None
                   /\ ~confvariables[j].interactive
                   /\ ArgValue(confvariables[j]) # None
          \/ EnvValue(var) = None /\ FileValue(var) = None

PromptPassSet ==
    /\ cfg.called
    /\ "promptPass" \in DOMAIN cfg.partial
    /\ cfg.partial.promptPass = "True"

\* C21: when promptPass resolves to true, from the command line or from the
\* file, every hidden credential evaluated after it has the value typed at
\* the prompt, whatever the file holds for it, and getconfig raises no
\* ConfigError for a password that no source configures
C21_PromptPassPrompts ==
    PromptPassSet =>
        /\ ~cfg.raised
        /\ \A i \in Evaluated :
              confvariables[i].interactive
                 => /\ cfg.config[confvariables[i].name] = Typed
                    /\ cfg.source[confvariables[i].name] = "interactive"

\* promptPass = Yes and password = secret in the file section: the password
\* is the one typed at the prompt
C21_Witness ==
    /\ PromptPassSet /\ ~cfg.raised
    /\ cfg.args.promptPass = None
    /\ cfg.args.password = None
    /\ cfg.config.configSection = "test21"
    /\ configfilestr.test21.password = "secret"
    /\ cfg.source.promptPass = "conffile"
    /\ cfg.config.password = Typed
    /\ cfg.credentials.password = Typed

(***************************************************************************)
(* C22: promptPass not given, and a credential on the command line         *)
(***************************************************************************)

\* no source gives promptPass: its value is the default
PromptPassNotGiven ==
    /\ cfg.called /\ ~cfg.raised
    /\ cfg.source.promptPass = "defaults"

\* some credential of the authenticator is given on the command line
CredentialInCmdArgs ==
    \E j \in Evaluated :
        /\ confvariables[j].key # None
        /\ ArgValue(confvariables[j]) # None

\* C22: when no source gives promptPass and a credential is given on the
\* command line, a hidden credential is the command line's if given there
\* and else the one typed at the prompt, whatever the environment or the
\* file hold for it; when no credential is given on the command line, the
\* file's value for it is used and nothing is prompted
C22_CmdLineCredentialPrompts ==
    PromptPassNotGiven =>
        \A i \in Evaluated :
            confvariables[i].interactive =>
                IF CredentialInCmdArgs
                THEN IF ArgValue(confvariables[i]) # None
                     THEN /\ cfg.config[confvariables[i].name]
                                = ArgValue(confvariables[i])
                          /\ cfg.source[confvariables[i].name] = "cmdargs"
                     ELSE /\ cfg.config[confvariables[i].name] = Typed
                          /\ cfg.source[confvariables[i].name] = "interactive"
                ELSE FileValue(confvariables[i]) # None
                        => /\ cfg.config[confvariables[i].name]
                                 = FileValue(confvariables[i])
                           /\ cfg.source[confvariables[i].name] = "conffile"

\* -a db -u rbeck with password = secret in the file section: the password
\* is the one typed at the prompt
C22_Witness ==
    /\ PromptPassNotGiven
    /\ cfg.args.username = "rbeck"
    /\ cfg.args.password = None
    /\ cfg.config.configSection = "example_root"
    /\ configfilestr.example_root.password = "secret"
    /\ cfg.config.username = "rbeck"
    /\ cfg.config.password = Typed

(***************************************************************************)
(* C23: mandatory and optional variables that no source defines, and       *)
(* values that the conversion rejects                                      *)
(***************************************************************************)

\* none of command line, environment and file defines the variable, it has
\* no default, and it is not asked for at the prompt
NoSourceDefines(var) ==
    /\ ArgValue(var) = None
    /\ EnvValue(var) = None
    /\ FileValue(var) = None
    /\ var.default = None
    /\ ~var.interactive

\* the conversion of the variable rejects the first value defined for it
Rejected(var) ==
    /\ var.convert # None
    /\ ~var.interactive
    /\ FirstDefined(var) = "ValueError"

\* no value is stored unconverted
StoredConverted ==
    \A i \in Evaluated :
        confvariables[i].convert = "boolean"
           => cfg.config[confvariables[i].name] \in {None, "True", "False"}

\* C23 as stated: a variable with optional=False and no default that no
\* source defines makes getconfig raise ConfigError and return nothing; an
\* optional variable that no source defines is set to None; a value that
\* the conversion rejects raises ConfigError and is not stored unconverted
C23_MissingAndInvalidValues ==
    cfg.called =>
        /\ \A i \in DOMAIN confvariables :
              /\ (~confvariables[i].optional /\ NoSourceDefines(confvariables[i]))
                    => cfg.raised /\ cfg.config = <<>>
              /\ (confvariables[i].optional /\ NoSourceDefines(confvariables[i])
                    /\ ~cfg.raised)
                    => /\ confvariables[i].name \in DOMAIN cfg.config
                       /\ cfg.config[confvariables[i].name] = None
              /\ Rejected(confvariables[i]) => cfg.raised
        /\ StoredConverted

\* C23, amended: the first part for the variables that are enabled, the
\* second for the optional variables other than configFile, which is set
\* to the list of the default files read
C23_MissingAndInvalidEnabled ==
    cfg.called =>
        /\ \A i \in DOMAIN confvariables :
              /\ (~confvariables[i].optional /\ NoSourceDefines(confvariables[i])
                    /\ confvariables[i].name \notin cfg.disabled)
                    => cfg.raised /\ cfg.config = <<>>
              /\ (confvariables[i].optional /\ NoSourceDefines(confvariables[i])
                    /\ ~cfg.raised)
                    => /\ confvariables[i].name \in DOMAIN cfg.config
                       /\ cfg.config[confvariables[i].name]
                             = IF confvariables[i].name = "configFile"
                               THEN "[]" ELSE None
              /\ (Rejected(confvariables[i])
                    /\ confvariables[i].name \notin cfg.disabled)
                    => cfg.raised
        /\ StoredConverted

\* no source defines url: getconfig raises ConfigError at url
C23_Witness ==
    /\ cfg.called
    /\ cfg.args.url = None
    /\ cfg.environ.ICAT_SERVICE = None
    /\ "configSection" \in DOMAIN cfg.partial
    /\ cfg.partial.configSection = None
    /\ NoSourceDefines(confvariables[3])
    /\ cfg.raised
    /\ cfg.failed = "url"

(***************************************************************************)
(* C24: the credentials are those of the selected authenticator            *)
(***************************************************************************)

\* the credential keys the authenticator auth requires
RequiredKeys(auth) == { AuthInfo[auth][i].name : i \in DOMAIN AuthInfo[auth] }

\* the variables of the credential keys
CredentialVariables == { i \in DOMAIN confvariables : confvariables[i].key # None }

\* C24: the credentials getconfig returns have exactly the keys the selected
\* authenticator requires, each with the value of its configuration
\* variable; the variables of the other credential keys stay disabled, are
\* asked from no source and are no attributes of the configuration
C24_CredentialsOfAuthenticator ==
    (cfg.called /\ ~cfg.raised) =>
        /\ DOMAIN cfg.credentials = RequiredKeys(cfg.config.auth)
        /\ \A i \in CredentialVariables :
              IF confvariables[i].key \in RequiredKeys(cfg.config.auth)
              THEN /\ confvariables[i].name \in DOMAIN cfg.config
                   /\ cfg.config[confvariables[i].name] # None
                   /\ cfg.credentials[confvariables[i].key]
                         = cfg.config[confvariables[i].name]
              ELSE /\ confvariables[i].name \in cfg.disabled
                   /\ confvariables[i].name \notin DOMAIN cfg.source
                   /\ confvariables[i].name \notin DOMAIN cfg.config
        /\ RequiredKeys(cfg.config.auth) = {}
              => /\ cfg.credentials = <<>>
                 /\ {"username", "password"} \cap DOMAIN cfg.config = {}

\* -a anon -u rbeck -p geheim: the credentials are empty and neither
\* username nor password is set
C24_Witness ==
    /\ cfg.called /\ ~cfg.raised
    /\ cfg.args.auth = "anon"
    /\ cfg.args.username = "rbeck"
    /\ cfg.args.password = "geheim"
    /\ cfg.config.auth = "anon"
    /\ cfg.credentials = <<>>
    /\ "username" \notin DOMAIN cfg.config
    /\ "password" \notin DOMAIN cfg.config

(***************************************************************************)
(* C25: getnaturalorder is the reference expansion                         *)
(***************************************************************************)

\* the natural-sort attributes of a type, or its constraint attributes if
\* it declares none, with "id" appended if it is in the constraint and
\* not in the list
ReferenceBase(e) ==
    LET base == IF EntityInfo[e].SortAttrs # <<>>
                THEN EntityInfo[e].SortAttrs ELSE EntityInfo[e].Constraint
    IN  IF "id" \in Range(EntityInfo[e].Constraint) /\ "id" \notin Range(base)
        THEN base \o <<"id">> ELSE base

RECURSIVE ReferenceStep(_)
\* one pass over a list of paths, each with the type its last name belongs
\* to: a plain attribute stays, a to-one relation is replaced by the base
\* list of the related type behind the path, a to-many relation is dropped
ReferenceStep(items) ==
    IF items = <<>> THEN <<>>
    ELSE LET it == Head(items)
             f == getAttrInfo(it.type, it.path[Len(it.path)])
             this == CASE f.relType = "ATTRIBUTE" -> <<it>>
                       [] f.relType = "ONE" ->
                            [ j \in DOMAIN ReferenceBase(f.type) |->
                                [type |-> f.type,
                                 path |-> it.path \o <<ReferenceBase(f.type)[j]>>] ]
                       [] OTHER -> <<>>
         IN  this \o ReferenceStep(Tail(items))

RECURSIVE ReferenceFix(_)
\* passes until nothing changes
ReferenceFix(items) ==
    IF ReferenceStep(items) = items THEN items
    ELSE ReferenceFix(ReferenceStep(items))

\* the reference expansion of the natural order of a type
ReferenceOrder(e) ==
    LET fix == ReferenceFix([ j \in DOMAIN ReferenceBase(e) |->
                                [type |-> e, path |-> <<ReferenceBase(e)[j]>>] ])
    IN  [ j \in DOMAIN fix |-> fix[j].path ]

\* C25: with order=True the order list is the reference expansion of the
\* natural order of the entity type: sort attributes or constraint, "id"
\* appended if in the constraint, plain attributes kept, to-one relations
\* replaced depth-first by the prefixed natural order of the related type,
\* to-many relations dropped; every call gives the same list
C25_NaturalOrderIsReference ==
    NaturalOrderSet =>
        /\ order = ReferenceOrder(entity)
        /\ order = getnaturalorder(entity)

\* Datafile: three to-one hops down to the name of the facility
C25_Witness ==
    /\ NaturalOrderSet
    /\ entity = "Datafile"
    /\ order = << <<"dataset", "investigation", "facility", "name">>,
                  <<"dataset", "investigation", "name">>,
                  <<"dataset", "investigation", "visitId">>,
                  <<"dataset", "name">>,
                  <<"name">> >>

(***************************************************************************)
(* C26: the natural order of a schema with a cycle                         *)
(***************************************************************************)

\* the last call asked for a natural order: order=True, or a list whose
\* entries all resolve and of which one ends in a relation
NaturalOrderAsked ==
    /\ last.op \in {"Query", "setOrder"}
    /\ \/ last.arg = OrderTrue
       \/ /\ last.arg.kind = "list"
          /\ \A i \in DOMAIN last.arg.v :
                ~resolveLoop(entity, FALSE, last.arg.v[i]).raised
          /\ \E i \in DOMAIN last.arg.v :
                ~resolveLoop(entity, FALSE, last.arg.v[i]).final

\* C26: the computation of a natural order ends on every schema, also when
\* the many to one relations of the sort or constraint attributes form a
\* cycle: the constructor or setOrder call that asks for it returns, with a
\* finite order list
C26_NaturalOrderTerminates ==
    NaturalOrderAsked => ~last.raised

(***************************************************************************)
(* C27: the symbolic name of a prefix                                      *)
(***************************************************************************)

\* an alias table that prefers the symbolic name of the last name of each
\* prefix: the prefix has it unless another prefix of the table has it, and
\* has a counter token only then or when its last name has none
NamedByLastSegment(subst) ==
    \A o \in DOMAIN subst :
        LET seg == <<o[Len(o)]>> IN
        IF seg \in DOMAIN substnames
        THEN \/ subst[o] = substnames[seg]
             \/ /\ subst[o] \in CounterTokens(Cardinality(DOMAIN subst))
                /\ \E other \in DOMAIN subst \ {o} :
                      subst[other] = substnames[seg]
        ELSE subst[o] \in CounterTokens(Cardinality(DOMAIN subst))

\* C27: in the alias tables of a rendered query a relation prefix whose last
\* name has a symbolic name gets that name whenever no other prefix of the
\* table has it, and gets a counter token only when its last name has no
\* symbolic name or the name is taken
C27_MnemonicByFinalSegment ==
    last.op = "str" =>
        /\ NamedByLastSegment(makesubst(Range(order) \cup Range(Keys(conditions))))
        /\ NamedByLastSegment(makesubst(before))

(***************************************************************************)
(* C28: joins are minimal and defined before use                           *)
(***************************************************************************)

\* every qualifier of an entry is "o" or the alias that an earlier entry
\* of the same clause declares with AS
DeclaredBefore(entries) ==
    \A i \in DOMAIN entries :
        \/ entries[i][1] = "o"
        \/ \E j \in 1 .. (i - 1) :
              /\ Len(entries[j]) = 5
              /\ entries[j][4] = " AS "
              /\ entries[j][5] = entries[i][1]

\* the aliases that the JOIN clauses of a rendered query declare
JoinAliases(s) ==
    { JoinEntries(s)[i][5] :
        i \in { j \in DOMAIN JoinEntries(s) : Len(JoinEntries(s)[j]) = 5 } }

\* C28: a rendered query has exactly one JOIN clause for each distinct
\* proper prefix of its order and condition paths; every alias that
\* qualifies a JOIN, WHERE or ORDER BY term is declared by an earlier JOIN
\* clause and every alias that qualifies an INCLUDE entry by an earlier
\* INCLUDE entry; no parent alias is missing when the query is rendered
C28_JoinsDefinedBeforeUse ==
    last.op = "str" =>
        LET paths == Range(order) \cup Range(Keys(conditions))
            subst == makesubst(paths)
            js == JoinEntries(out)
        IN  /\ Len(js) = Cardinality(ProperPrefixes(paths))
            /\ \A i \in DOMAIN js : Len(js[i]) = 5 /\ js[i][4] = " AS "
            /\ DeclaredBefore(js)
            /\ { b[2] : b \in BindingsOf(js) } = ProperPrefixes(paths)
            /\ \A i \in DOMAIN WhereTermsOf(out) :
                  TermAttr(WhereTermsOf(out)[i])[1] \in {"o"} \cup JoinAliases(out)
            /\ \A i \in DOMAIN OrderByEntries(out) :
                  OrderByEntries(out)[i][1] \in {"o"} \cup JoinAliases(out)
            /\ DeclaredBefore(IncludeEntries(out))
            /\ \A p \in paths :
                  Len(p) > 1 => SubSeq(p, 1, Len(p) - 1) \in DOMAIN subst
            /\ \A p \in before \cup ProperPrefixes(before) :
                  Len(p) > 1 => SubSeq(p, 1, Len(p) - 1) \in DOMAIN makesubst(before)

\* two order paths and a condition path share the prefix
\* dataset.investigation: it is joined once, after dataset, and three
\* relations are joined in all; the include entries declare ds before use
C28_Witness ==
    /\ last.op = "str"
    /\ entity = "Datafile"
    /\ <<"dataset", "investigation", "name">> \in Range(order)
    /\ <<"dataset", "investigation", "visitId">> \in Range(order)
    /\ <<"dataset", "investigation", "facility", "name">> \in Range(Keys(conditions))
    /\ Len(JoinEntries(out)) = 3
    /\ JoinEntries(out)[2] = <<"ds", ".", "investigation", " AS ", "i">>
    /\ <<"dataset", "datafiles", "dataset">> \in before
    /\ <<"s1", ".", "dataset">> \in Range(IncludeEntries(out))

(***************************************************************************)
(* C29: the include set after str(query)                                   *)
(***************************************************************************)

\* C29: after str(query) on a Query with includes the include set holds
\* all it held before the call and is closed under proper prefixes; a
\* further str(query) right after leaves the include set as it is
C29_IncludesPrefixClosed ==
    last.op = "str" =>
        /\ before \subseteq includes
        /\ \A p \in includes : ProperPrefixes({p}) \subseteq includes
        /\ includes = before \cup ProperPrefixes(before)
        /\ prevOut # NoString => includes = before

\* dataset.investigation.facility was included: str(query) added dataset
\* and dataset.investigation, and the next str(query) added nothing
C29_Witness ==
    /\ last.op = "str"
    /\ prevOut # NoString
    /\ includes = { <<"dataset">>, <<"dataset", "investigation">>,
                    <<"dataset", "investigation", "facility">> }
    /\ before = includes

(***************************************************************************)
(* C30: a setOrder call that raises                                        *)
(***************************************************************************)

\* C30: a setOrder call that raises on an existing Query leaves the order
\* list as it was before the call, neither empty nor with the expansions
\* of the entries before the invalid one, and leaves conditions and
\* includes as they were
C30_FailedSetOrderHasNoEffect ==
    [][ (last'.op = "setOrder" /\ last'.raised) =>
          /\ order' = order
          /\ conditions' = conditions
          /\ includes' = includes ]_vars

====
